---- MODULE Spec2Model ----
(***************************************************************************)
(* CEM-RL training loop (CEMRL.learn, torchy_baselines/cem_rl/cem_rl.py).  *)
(*                                                                         *)
(* The loop is one sequential routine; pc is its position.  Parameter      *)
(* vectors are symbolic: a vector sampled by ask in generation g for slot  *)
(* j is [gen |-> g, idx |-> j, grad |-> 0], and every actor gradient step  *)
(* adds one to grad.  Vectors of one population are therefore pairwise     *)
(* distinct, as samples of a continuous distribution are.                  *)
(***************************************************************************)
EXTENDS Integers, Naturals, Sequences, FiniteSets, TLC

\* ---------------------------------------------------------------- bounds
MaxPop == 2
MaxTotal == 3
MaxEpSteps == 1
MaxPrior == 1
MaxDelay == 2

\* ------------------------------------------------------ program constants
\* default tau = 0.005, in thousandths
Tau == 5
\* default pop_size
DefaultPopSize == 10
\* default n_grad
DefaultNGrad == 5
\* default policy_delay
DefaultPolicyDelay == 2
\* default learning_starts
DefaultLearningStarts == 100
\* marks an argument the call leaves out (the callee's default applies)
Omitted == -1

Styles == {"original", "original_td3", "td3_like", "other"}

\* ------------------------------------------------------------- variables
VARIABLES
    \* configuration (construction time and the arguments of learn) and the
    \* longest episode of the environment
    pop_size, n_grad, update_style, policy_delay, elitism, learning_starts,
    total_timesteps, reset_num_timesteps, max_episode_steps,
    \* the model's fields and the locals of learn
    pc, num_timesteps, actor_steps, continue_training,
    es_params, fitnesses, i, it, n_training_steps, k,
    actor, actor_target, optimizer, critic, critic_target,
    replay_size, replay_data, current_progress, es, episode_num,
    \* history: the calls made for the current individual, per-generation
    \* and per-run counters, the rollouts of the current generation
    calls, gen, stats, evals, last_eval

config == <<pop_size, n_grad, update_style, policy_delay, elitism, learning_starts,
            total_timesteps, reset_num_timesteps, max_episode_steps>>
nets == <<actor, actor_target, optimizer, critic, critic_target>>
gradlocals == <<i, it, n_training_steps>>
vars == <<pop_size, n_grad, update_style, policy_delay, elitism, learning_starts,
          total_timesteps, reset_num_timesteps, max_episode_steps,
          pc, num_timesteps, actor_steps, continue_training,
          es_params, fitnesses, i, it, n_training_steps, k,
          actor, actor_target, optimizer, critic, critic_target,
          replay_size, replay_data, current_progress, es, episode_num,
          calls, gen, stats, evals, last_eval>>

\* ------------------------------------------------- parameter vector codec
Vec(g, j) == [gen |-> g, idx |-> j, grad |-> 0]

\* actor.load_from_vector(v): the network's weights become v
LoadFromVector(v) == [w |-> v]

\* actor.parameters_to_vector(): the network's weights as a vector
ParametersToVector(net) == net.w

\* ------------------------------------------------- evolutionary optimizer
\* CEM(..., mu_init = params_vector, elitism = self.elitism)
NewCEM(mu_init) == [tells |-> 0, mu |-> mu_init, has_elite |-> FALSE, elite |-> mu_init]

\* the slots the previous best may take in a population of n: the first one
\* (which the gradient phase trains when n_grad > 0) or the last one
ElitismSlots(n) == {1, n}

\* es.ask(pop_size): pop_size fresh samples; with elitism the previous best
\* replaces the sampled slot `slot`
Ask(dist, n, g, keep, slot) ==
    [j \in 1..n |-> IF keep /\ dist.has_elite /\ j = slot THEN dist.elite ELSE Vec(g, j)]

\* index of the best fitness (the first one among equals)
Best(fit) == CHOOSE b \in 1..Len(fit) :
                /\ \A j \in 1..Len(fit) : fit[j] <= fit[b]
                /\ \A j \in 1..(b - 1) : fit[j] < fit[b]

\* es.tell(solutions, scores): the distribution moves to the selected parents
Tell(dist, solutions, scores) ==
    IF Len(scores) = 0 \/ Len(solutions) < Len(scores) THEN [dist EXCEPT !.tells = @ + 1]
    ELSE [tells |-> dist.tells + 1, mu |-> solutions[Best(scores)],
          has_elite |-> TRUE, elite |-> solutions[Best(scores)]]

\* ------------------------------------------------------- gradient trainer
Call(fn, n, tau, tau_actor, tau_critic, batch) ==
    [fn |-> fn, n |-> n, tau |-> tau, tau_actor |-> tau_actor,
     tau_critic |-> tau_critic, batch |-> batch]

\* soft update of a target by coefficient tau, n times (tau = 0 leaves it)
Polyak(target, tau, n) == IF tau = 0 THEN target ELSE [target EXCEPT !.polyak = @ + n]

\* the coefficient a call uses: the callee's default when left out
Coef(tau) == IF tau = Omitted THEN Tau ELSE tau

\* batches a call samples itself: one per iteration unless a batch is passed
Sampled(n, batch) == IF batch = Omitted THEN n ELSE 0

\* ------------------------------------------------------------------ Init
PopSizes == 1..MaxPop
NGrads == 0..(MaxPop + 1)
\* the episode reward a rollout returns: a failure or a success
Rewards == {0, 1}
\* policy_delay is read by the styles with policy delay only; for the other
\* styles its default stands for every value
PolicyDelays(style) ==
    IF style \in {"original", "original_td3"} THEN {DefaultPolicyDelay} ELSE 1..MaxDelay
InitialParams == Vec(0, 0)

\* everything but the configuration, after construction (_setup_model) and
\* possibly an earlier run that left num_timesteps = prior behind
InitState(prior) ==
    /\ pc = "setup"
    /\ num_timesteps = prior
    /\ replay_size = prior
    /\ actor_steps = 0
    /\ continue_training = TRUE
    /\ es_params = << >>
    /\ fitnesses = << >>
    /\ i = 0 /\ it = 0 /\ n_training_steps = 0 /\ k = 0
    /\ actor = LoadFromVector(InitialParams)
    /\ actor_target = [w |-> InitialParams, polyak |-> 0]
    /\ optimizer = [serial |-> 0, steps |-> 0]
    /\ critic = [steps |-> 0]
    /\ critic_target = [polyak |-> 0]
    /\ replay_data = 0
    /\ current_progress = 0
    /\ es = NewCEM(InitialParams)
    /\ episode_num = 0
    /\ calls = << >>
    /\ gen = [rollouts |-> 0, trainer_calls |-> 0, grad_blocks |-> 0, tells |-> 0,
              grad_phase |-> FALSE, asked |-> << >>, writes |-> << >>,
              serial0 |-> 0]
    /\ stats = [asks |-> 0, rollouts |-> 0, critic_iters |-> 0, actor_iters |-> 0,
                samples |-> 0, training_start |-> 0, training_end |-> 0,
                start_timesteps |-> prior]
    /\ evals = << >>
    /\ last_eval = [steps |-> 0, rollouts |-> 0]

Init ==
    /\ pop_size \in PopSizes
    /\ n_grad \in NGrads
    /\ update_style \in Styles
    /\ policy_delay \in PolicyDelays(update_style)
    /\ elitism \in BOOLEAN
    /\ learning_starts = DefaultLearningStarts
    /\ total_timesteps \in 0..MaxTotal
    /\ reset_num_timesteps \in BOOLEAN
    /\ max_episode_steps = MaxEpSteps
    /\ \E prior \in 0..MaxPrior : InitState(prior)

\* --------------------------------------------------------------- actions
\* _setup_learn, actor_steps = 0, continue_training = True, on_training_start
SetupLearn ==
    /\ pc = "setup"
    /\ num_timesteps' = IF reset_num_timesteps THEN 0 ELSE num_timesteps
    /\ episode_num' = 0
    /\ actor_steps' = 0
    /\ continue_training' = TRUE
    /\ stats' = [stats EXCEPT !.training_start = @ + 1,
                              !.start_timesteps = IF reset_num_timesteps THEN 0 ELSE num_timesteps]
    /\ pc' = "while"
    /\ UNCHANGED <<config, nets, gradlocals, es_params, fitnesses, k, replay_size,
                   replay_data, current_progress, es, calls, gen, evals, last_eval>>

\* es.ask hoisted out of the loop: only the first generation asks, the
\* later ones evaluate and tell the population they already hold
WhileEnterAsksOnce ==
    /\ pc = "while"
    /\ num_timesteps < total_timesteps
    /\ fitnesses' = << >>
    /\ IF es_params = << >>
          THEN /\ \E slot \in ElitismSlots(pop_size) :
                     es_params' = Ask(es, pop_size, stats.asks + 1, elitism, slot)
               /\ stats' = [stats EXCEPT !.asks = @ + 1]
          ELSE UNCHANGED <<es_params, stats>>
    /\ gen' = [rollouts |-> 0, trainer_calls |-> 0, grad_blocks |-> 0, tells |-> 0,
               grad_phase |-> FALSE, asked |-> es_params',
               writes |-> [j \in 1..pop_size |-> 0], serial0 |-> optimizer.serial]
    /\ evals' = << >>
    /\ pc' = "if_grad"
    /\ UNCHANGED <<config, nets, gradlocals, num_timesteps, actor_steps, continue_training,
                   k, replay_size, replay_data, current_progress, es, episode_num, calls,
                   last_eval>>

\* while num_timesteps < total_timesteps: fitnesses = [], es_params = es.ask(pop_size)
WhileEnter ==
    /\ pc = "while"
    /\ num_timesteps < total_timesteps
    /\ fitnesses' = << >>
    /\ \E slot \in ElitismSlots(pop_size) :
          es_params' = Ask(es, pop_size, stats.asks + 1, elitism, slot)
    /\ stats' = [stats EXCEPT !.asks = @ + 1]
    /\ gen' = [rollouts |-> 0, trainer_calls |-> 0, grad_blocks |-> 0, tells |-> 0,
               grad_phase |-> FALSE, asked |-> es_params',
               writes |-> [j \in 1..pop_size |-> 0], serial0 |-> optimizer.serial]
    /\ evals' = << >>
    /\ pc' = "if_grad"
    /\ UNCHANGED <<config, nets, gradlocals, num_timesteps, actor_steps, continue_training,
                   k, replay_size, replay_data, current_progress, es, episode_num, calls,
                   last_eval>>

\* the loop condition fails: fall through to on_training_end
WhileExit ==
    /\ pc = "while"
    /\ ~(num_timesteps < total_timesteps)
    /\ pc' = "end"
    /\ UNCHANGED <<config, nets, gradlocals, num_timesteps, actor_steps, continue_training,
                   es_params, fitnesses, k, replay_size, replay_data, current_progress, es,
                   episode_num, calls, gen, stats, evals, last_eval>>

\* GradPhaseCondition, but on the steps of the last evaluation phase
GradPhaseConditionActorSteps == actor_steps > 0

\* the condition of the gradient phase: if self.num_timesteps > 0
GradPhaseCondition == num_timesteps > 0

\* the condition holds: enter the gradient phase
GradEnter ==
    /\ pc = "if_grad"
    /\ GradPhaseCondition
    /\ i' = 0
    /\ gen' = [gen EXCEPT !.grad_phase = TRUE]
    /\ pc' = "grad_for"
    /\ UNCHANGED <<config, nets, it, n_training_steps, num_timesteps, actor_steps,
                   continue_training, es_params, fitnesses, k, replay_size, replay_data,
                   current_progress, es, episode_num, calls, stats, evals, last_eval>>

\* num_timesteps == 0: the gradient phase is skipped
GradSkip ==
    /\ pc = "if_grad"
    /\ ~GradPhaseCondition
    /\ pc' = "eval_reset"
    /\ UNCHANGED <<config, nets, gradlocals, num_timesteps, actor_steps, continue_training,
                   es_params, fitnesses, k, replay_size, replay_data, current_progress, es,
                   episode_num, calls, gen, stats, evals, last_eval>>

\* GradLoad, but the target actor keeps the weights it had
GradLoadActorOnly ==
    /\ pc = "grad_for"
    /\ i < n_grad
    /\ i < Len(es_params)
    /\ actor' = LoadFromVector(es_params[i + 1])
    /\ optimizer' = [serial |-> optimizer.serial + 1, steps |-> 0]
    /\ calls' = << >>
    /\ gen' = [gen EXCEPT !.grad_blocks = @ + 1]
    /\ pc' = "style"
    /\ UNCHANGED <<config, actor_target, critic, critic_target, gradlocals, num_timesteps,
                   actor_steps, continue_training, es_params, fitnesses, k, replay_size,
                   replay_data, current_progress, es, episode_num, stats, evals, last_eval>>

\* the load without line 151: the optimizer built for the previous
\* individual (or by _setup_model) is kept, state and all
GradLoadKeepsOptimizer ==
    /\ pc = "grad_for"
    /\ i < n_grad
    /\ i < Len(es_params)
    /\ actor' = LoadFromVector(es_params[i + 1])
    /\ actor_target' = [w |-> es_params[i + 1], polyak |-> 0]
    /\ calls' = << >>
    /\ gen' = [gen EXCEPT !.grad_blocks = @ + 1]
    /\ pc' = "style"
    /\ UNCHANGED <<config, optimizer, critic, critic_target, gradlocals, num_timesteps,
                   actor_steps, continue_training, es_params, fitnesses, k, replay_size,
                   replay_data, current_progress, es, episode_num, stats, evals, last_eval>>

\* for i in range(n_grad): load es_params[i] into actor and actor_target, new Adam
GradLoad ==
    /\ pc = "grad_for"
    /\ i < n_grad
    /\ i < Len(es_params)
    /\ actor' = LoadFromVector(es_params[i + 1])
    /\ actor_target' = [w |-> es_params[i + 1], polyak |-> 0]
    /\ optimizer' = [serial |-> optimizer.serial + 1, steps |-> 0]
    /\ calls' = << >>
    /\ gen' = [gen EXCEPT !.grad_blocks = @ + 1]
    /\ pc' = "style"
    /\ UNCHANGED <<config, critic, critic_target, gradlocals, num_timesteps, actor_steps,
                   continue_training, es_params, fitnesses, k, replay_size, replay_data,
                   current_progress, es, episode_num, stats, evals, last_eval>>

\* es_params[i] with i past the end of the population raises IndexError
GradIndexError ==
    /\ pc = "grad_for"
    /\ i < n_grad
    /\ ~(i < Len(es_params))
    /\ pc' = "raised"
    /\ UNCHANGED <<config, nets, gradlocals, num_timesteps, actor_steps, continue_training,
                   es_params, fitnesses, k, replay_size, replay_data, current_progress, es,
                   episode_num, calls, gen, stats, evals, last_eval>>

\* GradForDone, but the loop runs one index too far (i <= n_grad)
GradForDoneOffByOne ==
    /\ pc = "grad_for"
    /\ ~(i < n_grad)
    /\ pc' = IF i = n_grad /\ i < Len(es_params) THEN "style" ELSE "eval_reset"
    /\ UNCHANGED <<config, nets, gradlocals, num_timesteps, actor_steps, continue_training,
                   es_params, fitnesses, k, replay_size, replay_data, current_progress, es,
                   episode_num, calls, gen, stats, evals, last_eval>>

\* range(n_grad) is exhausted
GradForDone ==
    /\ pc = "grad_for"
    /\ ~(i < n_grad)
    /\ pc' = "eval_reset"
    /\ UNCHANGED <<config, nets, gradlocals, num_timesteps, actor_steps, continue_training,
                   es_params, fitnesses, k, replay_size, replay_data, current_progress, es,
                   episode_num, calls, gen, stats, evals, last_eval>>

\* the iteration count a call uses: one when left out
Iters(n) == IF n = Omitted THEN 1 ELSE n

\* train_critic(n, tau, replay_data): n critic gradient steps, each followed by
\* a soft update of the target critic by tau; samples when no batch is passed
TrainCritic(n, tau, batch) ==
    /\ critic' = [critic EXCEPT !.steps = @ + Iters(n)]
    /\ critic_target' = Polyak(critic_target, Coef(tau), Iters(n))
    /\ calls' = Append(calls, Call("train_critic", n, tau, Omitted, Omitted, batch))
    /\ gen' = [gen EXCEPT !.trainer_calls = @ + 1]
    /\ stats' = [stats EXCEPT !.critic_iters = @ + Iters(n),
                              !.samples = @ + Sampled(Iters(n), batch)]

\* train_actor(n, tau_actor, tau_critic, replay_data): n actor gradient steps,
\* each followed by soft updates of the target actor and the target critic
TrainActor(n, tau_actor, tau_critic, batch) ==
    /\ actor' = [actor EXCEPT !.w.grad = @ + Iters(n)]
    /\ optimizer' = [optimizer EXCEPT !.steps = @ + Iters(n)]
    /\ actor_target' = Polyak(actor_target, Coef(tau_actor), Iters(n))
    /\ critic_target' = Polyak(critic_target, Coef(tau_critic), Iters(n))
    /\ calls' = Append(calls, Call("train_actor", n, Omitted, tau_actor, tau_critic, batch))
    /\ gen' = [gen EXCEPT !.trainer_calls = @ + 1]
    /\ stats' = [stats EXCEPT !.actor_iters = @ + Iters(n),
                              !.samples = @ + Sampled(Iters(n), batch)]

\* update_style == 'original': train_critic(actor_steps // n_grad, tau=self.tau)
OriginalTrainCritic ==
    /\ pc = "style"
    /\ update_style = "original"
    /\ TrainCritic(actor_steps \div n_grad, Tau, Omitted)
    /\ pc' = "original_actor"
    /\ UNCHANGED <<config, actor, actor_target, optimizer, gradlocals, num_timesteps,
                   actor_steps, continue_training, es_params, fitnesses, k, replay_size,
                   replay_data, current_progress, es, episode_num, evals, last_eval>>

\* the actor's budget taken from the model's step counter: train_actor(num_timesteps, ...)
OriginalTrainActorByTimesteps ==
    /\ pc = "original_actor"
    /\ TrainActor(num_timesteps, Tau, 0, Omitted)
    /\ pc' = "store"
    /\ UNCHANGED <<config, critic, gradlocals, num_timesteps,
                   actor_steps, continue_training, es_params, fitnesses, k, replay_size,
                   replay_data, current_progress, es, episode_num, evals, last_eval>>

\* train_actor(actor_steps, tau_actor=self.tau, tau_critic=0.0)
OriginalTrainActor ==
    /\ pc = "original_actor"
    /\ TrainActor(actor_steps, Tau, 0, Omitted)
    /\ pc' = "store"
    /\ UNCHANGED <<config, critic, gradlocals, num_timesteps,
                   actor_steps, continue_training, es_params, fitnesses, k, replay_size,
                   replay_data, current_progress, es, episode_num, evals, last_eval>>

\* OriginalTd3TrainCritic, but with the coefficient of the 'original' branch
OriginalTd3TrainCriticWithTau ==
    /\ pc = "style"
    /\ update_style = "original_td3"
    /\ TrainCritic(actor_steps \div n_grad, Tau, Omitted)
    /\ pc' = "original_td3_actor"
    /\ UNCHANGED <<config, actor, actor_target, optimizer, gradlocals, num_timesteps,
                   actor_steps, continue_training, es_params, fitnesses, k, replay_size,
                   replay_data, current_progress, es, episode_num, evals, last_eval>>

\* update_style == 'original_td3': train_critic(actor_steps // n_grad, tau=0.0)
OriginalTd3TrainCritic ==
    /\ pc = "style"
    /\ update_style = "original_td3"
    /\ TrainCritic(actor_steps \div n_grad, 0, Omitted)
    /\ pc' = "original_td3_actor"
    /\ UNCHANGED <<config, actor, actor_target, optimizer, gradlocals, num_timesteps,
                   actor_steps, continue_training, es_params, fitnesses, k, replay_size,
                   replay_data, current_progress, es, episode_num, evals, last_eval>>

\* train_actor(actor_steps, tau_actor=self.tau, tau_critic=self.tau)
OriginalTd3TrainActor ==
    /\ pc = "original_td3_actor"
    /\ TrainActor(actor_steps, Tau, Tau, Omitted)
    /\ pc' = "store"
    /\ UNCHANGED <<config, critic, gradlocals, num_timesteps,
                   actor_steps, continue_training, es_params, fitnesses, k, replay_size,
                   replay_data, current_progress, es, episode_num, evals, last_eval>>

\* the number of iterations of the styles with policy delay
TrainingSteps(style, steps, ngrad) ==
    IF style = "td3_like" THEN steps ELSE 2 * (steps \div ngrad)

\* else branch: n_training_steps by style, it = 0
DelayedSetSteps ==
    /\ pc = "style"
    /\ update_style \notin {"original", "original_td3"}
    /\ n_training_steps' = TrainingSteps(update_style, actor_steps, n_grad)
    /\ it' = 0
    /\ pc' = "delayed_for"
    /\ UNCHANGED <<config, nets, i, num_timesteps, actor_steps, continue_training,
                   es_params, fitnesses, k, replay_size, replay_data, current_progress, es,
                   episode_num, calls, gen, stats, evals, last_eval>>

\* for it in range(n_training_steps): replay_data = replay_buffer.sample(...)
DelayedSample ==
    /\ pc = "delayed_for"
    /\ it < n_training_steps
    /\ replay_data' = stats.samples + 1
    /\ stats' = [stats EXCEPT !.samples = @ + 1]
    /\ pc' = "delayed_critic"
    /\ UNCHANGED <<config, nets, gradlocals, num_timesteps, actor_steps,
                   continue_training, es_params, fitnesses, k, replay_size,
                   current_progress, es, episode_num, calls, gen, evals, last_eval>>

\* self.train_critic(replay_data=replay_data)
DelayedTrainCritic ==
    /\ pc = "delayed_critic"
    /\ TrainCritic(Omitted, Omitted, replay_data)
    /\ pc' = "delayed_if"
    /\ UNCHANGED <<config, actor, actor_target, optimizer, gradlocals, num_timesteps,
                   actor_steps, continue_training, es_params, fitnesses, k, replay_size,
                   replay_data, current_progress, es, episode_num, evals, last_eval>>

\* IsDelayedUpdate, but counting the iterations from one
IsDelayedUpdateFromOne(n, delay) == (n + 1) % delay = 0

\* whether iteration number n updates the policy
IsDelayedUpdate(n, delay) == n % delay = 0

\* if it % policy_delay == 0: train_actor(replay_data=replay_data, tau, tau)
DelayedTrainActor ==
    /\ pc = "delayed_if"
    /\ IsDelayedUpdate(it, policy_delay)
    /\ TrainActor(Omitted, Tau, Tau, replay_data)
    /\ it' = it + 1
    /\ pc' = "delayed_for"
    /\ UNCHANGED <<config, critic, i, n_training_steps, num_timesteps,
                   actor_steps, continue_training, es_params, fitnesses, k, replay_size,
                   replay_data, current_progress, es, episode_num, evals, last_eval>>

\* the iteration is not a policy update: next iteration
DelayedSkipActor ==
    /\ pc = "delayed_if"
    /\ ~IsDelayedUpdate(it, policy_delay)
    /\ it' = it + 1
    /\ pc' = "delayed_for"
    /\ UNCHANGED <<config, nets, i, n_training_steps, num_timesteps, actor_steps,
                   continue_training, es_params, fitnesses, k, replay_size, replay_data,
                   current_progress, es, episode_num, calls, gen, stats, evals,
                   last_eval>>

\* range(n_training_steps) is exhausted
DelayedForDone ==
    /\ pc = "delayed_for"
    /\ ~(it < n_training_steps)
    /\ pc' = "store"
    /\ UNCHANGED <<config, nets, gradlocals, num_timesteps, actor_steps,
                   continue_training, es_params, fitnesses, k, replay_size, replay_data,
                   current_progress, es, episode_num, calls, gen, stats, evals,
                   last_eval>>

\* the write-back indexed from the end of the list: es_params[-i - 1]
StoreBackFromEnd ==
    /\ pc = "store"
    /\ es_params' = [es_params EXCEPT ![pop_size - i] = ParametersToVector(actor)]
    /\ gen' = [gen EXCEPT !.writes[pop_size - i] = @ + 1]
    /\ i' = i + 1
    /\ pc' = "grad_for"
    /\ UNCHANGED <<config, nets, it, n_training_steps, num_timesteps, actor_steps,
                   continue_training, fitnesses, k, replay_size, replay_data,
                   current_progress, es, episode_num, calls, stats, evals,
                   last_eval>>

\* self.es_params[i] = self.actor.parameters_to_vector(); next i
StoreBack ==
    /\ pc = "store"
    /\ es_params' = [es_params EXCEPT ![i + 1] = ParametersToVector(actor)]
    /\ gen' = [gen EXCEPT !.writes[i + 1] = @ + 1]
    /\ i' = i + 1
    /\ pc' = "grad_for"
    /\ UNCHANGED <<config, nets, it, n_training_steps, num_timesteps, actor_steps,
                   continue_training, fitnesses, k, replay_size, replay_data,
                   current_progress, es, episode_num, calls, stats, evals,
                   last_eval>>

\* the steps the logged rollouts returned, added up
RECURSIVE SumSteps(_)
SumSteps(log) == IF log = << >> THEN 0 ELSE log[1].steps + SumSteps(Tail(log))

\* EvalReset, but actor_steps keeps adding up over the generations
EvalResetKeepsSteps ==
    /\ pc = "eval_reset"
    /\ k' = 0
    /\ pc' = "eval_for"
    /\ UNCHANGED <<config, nets, gradlocals, num_timesteps, actor_steps, continue_training,
                   es_params, fitnesses, replay_size, replay_data, current_progress, es,
                   episode_num, calls, gen, stats, evals, last_eval>>

\* EvalReset, but the individuals the gradient phase trained are not evaluated
EvalResetSkipsTrained ==
    /\ pc = "eval_reset"
    /\ actor_steps' = 0
    /\ k' = IF gen.grad_phase THEN n_grad ELSE 0
    /\ pc' = "eval_for"
    /\ UNCHANGED <<config, nets, gradlocals, num_timesteps, continue_training,
                   es_params, fitnesses, replay_size, replay_data, current_progress, es,
                   episode_num, calls, gen, stats, evals, last_eval>>

\* actor_steps = 0 before the evaluation loop
EvalReset ==
    /\ pc = "eval_reset"
    /\ actor_steps' = 0
    /\ k' = 0
    /\ pc' = "eval_for"
    /\ UNCHANGED <<config, nets, gradlocals, num_timesteps, continue_training,
                   es_params, fitnesses, replay_size, replay_data, current_progress, es,
                   episode_num, calls, gen, stats, evals, last_eval>>

\* EvalLoad, but the population is walked from its last slot to its first
EvalLoadReversed ==
    /\ pc = "eval_for"
    /\ k < Len(es_params)
    /\ actor' = LoadFromVector(es_params[Len(es_params) - k])
    /\ pc' = "rollout"
    /\ UNCHANGED <<config, actor_target, optimizer, critic, critic_target, gradlocals,
                   num_timesteps, actor_steps, continue_training, es_params, fitnesses, k,
                   replay_size, replay_data, current_progress, es, episode_num, calls, gen,
                   stats, evals, last_eval>>

\* for params in self.es_params: self.actor.load_from_vector(params)
EvalLoad ==
    /\ pc = "eval_for"
    /\ k < Len(es_params)
    /\ actor' = LoadFromVector(es_params[k + 1])
    /\ pc' = "rollout"
    /\ UNCHANGED <<config, actor_target, optimizer, critic, critic_target, gradlocals,
                   num_timesteps, actor_steps, continue_training, es_params, fitnesses, k,
                   replay_size, replay_data, current_progress, es, episode_num, calls, gen,
                   stats, evals, last_eval>>

\* what collect_rollouts does to the model: steps are counted and stored
CollectRollouts(steps) ==
    /\ num_timesteps' = num_timesteps + steps
    /\ replay_size' = replay_size + steps
    /\ gen' = [gen EXCEPT !.rollouts = @ + 1]
    /\ stats' = [stats EXCEPT !.rollouts = @ + 1]

\* the rollout returns continue_training = True: count it and keep its reward
RolloutContinue ==
    /\ pc = "rollout"
    /\ \E steps \in 1..max_episode_steps, reward \in Rewards :
          /\ CollectRollouts(steps)
          /\ continue_training' = TRUE
          /\ episode_num' = episode_num + 1
          /\ actor_steps' = actor_steps + steps
          /\ fitnesses' = Append(fitnesses, reward)
          /\ evals' = Append(evals, [w |-> actor.w, reward |-> reward, steps |-> steps])
    /\ k' = k + 1
    /\ pc' = "eval_for"
    /\ UNCHANGED <<config, nets, gradlocals, es_params, replay_data, current_progress, es,
                   calls, last_eval>>

\* the rollout returns continue_training = False: break
RolloutAbort ==
    /\ pc = "rollout"
    /\ \E steps \in 1..max_episode_steps : CollectRollouts(steps)
    /\ continue_training' = FALSE
    /\ pc' = "if_abort"
    /\ UNCHANGED <<config, nets, gradlocals, actor_steps, es_params, fitnesses, k,
                   replay_data, current_progress, es, episode_num, calls, evals,
                   last_eval>>

\* the evaluation loop also left as soon as the budget is used up
EvalForDoneOnBudget ==
    /\ pc = "eval_for"
    /\ ~(k < Len(es_params)) \/ num_timesteps >= total_timesteps
    /\ last_eval' = [steps |-> SumSteps(evals), rollouts |-> Len(evals)]
    /\ pc' = "if_abort"
    /\ UNCHANGED <<config, nets, gradlocals, num_timesteps, actor_steps, continue_training,
                   es_params, fitnesses, k, replay_size, replay_data, current_progress, es,
                   episode_num, calls, gen, stats, evals>>

\* the population is exhausted
EvalForDone ==
    /\ pc = "eval_for"
    /\ ~(k < Len(es_params))
    /\ last_eval' = [steps |-> SumSteps(evals), rollouts |-> Len(evals)]
    /\ pc' = "if_abort"
    /\ UNCHANGED <<config, nets, gradlocals, num_timesteps, actor_steps, continue_training,
                   es_params, fitnesses, k, replay_size, replay_data, current_progress, es,
                   episode_num, calls, gen, stats, evals>>

\* AbortBreak, but the aborted generation is told before the loop is left
AbortBreakAfterTell ==
    /\ pc = "if_abort"
    /\ continue_training = FALSE
    /\ es' = Tell(es, es_params, fitnesses)
    /\ pc' = "end"
    /\ UNCHANGED <<config, nets, gradlocals, num_timesteps, actor_steps, continue_training,
                   es_params, fitnesses, k, replay_size, replay_data, current_progress,
                   episode_num, calls, gen, stats, evals, last_eval>>

\* if continue_training is False: break (out of the while loop)
AbortBreak ==
    /\ pc = "if_abort"
    /\ continue_training = FALSE
    /\ pc' = "end"
    /\ UNCHANGED <<config, nets, gradlocals, num_timesteps, actor_steps, continue_training,
                   es_params, fitnesses, k, replay_size, replay_data, current_progress, es,
                   episode_num, calls, gen, stats, evals, last_eval>>

\* self._update_current_progress(num_timesteps, total_timesteps)
UpdateCurrentProgress ==
    /\ pc = "if_abort"
    /\ continue_training # FALSE
    /\ current_progress' = num_timesteps
    /\ pc' = "tell"
    /\ UNCHANGED <<config, nets, gradlocals, num_timesteps, actor_steps, continue_training,
                   es_params, fitnesses, k, replay_size, replay_data, es,
                   episode_num, calls, gen, stats, evals, last_eval>>

\* tell followed by loading the updated mean into the actor
TellStepLoadsMean ==
    /\ pc = "tell"
    /\ es' = Tell(es, es_params, fitnesses)
    /\ actor' = LoadFromVector(es'.mu)
    /\ gen' = [gen EXCEPT !.tells = @ + 1]
    /\ pc' = "while"
    /\ UNCHANGED <<config, actor_target, optimizer, critic, critic_target, gradlocals,
                   num_timesteps, actor_steps, continue_training,
                   es_params, fitnesses, k, replay_size, replay_data, current_progress,
                   episode_num, calls, stats, evals, last_eval>>

\* self.es.tell(self.es_params, self.fitnesses); back to the loop condition
TellStep ==
    /\ pc = "tell"
    /\ es' = Tell(es, es_params, fitnesses)
    /\ gen' = [gen EXCEPT !.tells = @ + 1]
    /\ pc' = "while"
    /\ UNCHANGED <<config, nets, gradlocals, num_timesteps, actor_steps, continue_training,
                   es_params, fitnesses, k, replay_size, replay_data, current_progress,
                   episode_num, calls, stats, evals, last_eval>>

\* callback.on_training_end(); return self
TrainingEnd ==
    /\ pc = "end"
    /\ stats' = [stats EXCEPT !.training_end = @ + 1]
    /\ pc' = "done"
    /\ UNCHANGED <<config, nets, gradlocals, num_timesteps, actor_steps, continue_training,
                   es_params, fitnesses, k, replay_size, replay_data, current_progress, es,
                   episode_num, calls, gen, evals, last_eval>>

\* --------------------------------------------------------- specifications
Next ==
    \/ SetupLearn
    \/ WhileEnter
    \/ WhileExit
    \/ GradEnter
    \/ GradSkip
    \/ GradLoad
    \/ GradIndexError
    \/ GradForDone
    \/ OriginalTrainCritic
    \/ OriginalTrainActor
    \/ OriginalTd3TrainCritic
    \/ OriginalTd3TrainActor
    \/ DelayedSetSteps
    \/ DelayedSample
    \/ DelayedTrainCritic
    \/ DelayedTrainActor
    \/ DelayedSkipActor
    \/ DelayedForDone
    \/ StoreBack
    \/ EvalReset
    \/ EvalLoad
    \/ RolloutContinue
    \/ RolloutAbort
    \/ EvalForDone
    \/ AbortBreak
    \/ UpdateCurrentProgress
    \/ TellStep
    \/ TrainingEnd

Spec == Init /\ [][Next]_vars

\* the default population: pop_size = 10, n_grad = 5, with elitism, an
\* environment whose episodes last one step, and a budget that a fresh model
\* needs a second generation for; learn(reset_num_timesteps=False) on a
\* fresh model (prior = 0) or on one that has collected steps before
InitDefaultPopulation ==
    /\ pop_size = DefaultPopSize
    /\ n_grad = DefaultNGrad
    /\ elitism = TRUE
    /\ learning_starts = DefaultLearningStarts
    /\ update_style \in Styles
    /\ policy_delay \in PolicyDelays(update_style)
    /\ total_timesteps = DefaultPopSize + 1
    /\ reset_num_timesteps = FALSE
    /\ max_episode_steps = 1
    /\ \E prior \in 0..MaxPrior : InitState(prior)

\* n_grad < pop_size: es_params[i] never raises
NextDefaultPopulation ==
    \/ SetupLearn
    \/ WhileEnter
    \/ WhileExit
    \/ GradEnter
    \/ GradSkip
    \/ GradLoad
    \/ GradForDone
    \/ OriginalTrainCritic
    \/ OriginalTrainActor
    \/ OriginalTd3TrainCritic
    \/ OriginalTd3TrainActor
    \/ DelayedSetSteps
    \/ DelayedSample
    \/ DelayedTrainCritic
    \/ DelayedTrainActor
    \/ DelayedSkipActor
    \/ DelayedForDone
    \/ StoreBack
    \/ EvalReset
    \/ EvalLoad
    \/ RolloutContinue
    \/ RolloutAbort
    \/ EvalForDone
    \/ AbortBreak
    \/ UpdateCurrentProgress
    \/ TellStep
    \/ TrainingEnd

SpecDefaultPopulation == InitDefaultPopulation /\ [][NextDefaultPopulation]_vars

\* the routine is sequential code: it keeps running until it returns or raises
FairSpec == Init /\ [][Next]_vars /\ WF_vars(Next)

\* ================================================================ claims
GradPcs == {"grad_for", "style", "original_actor", "original_td3_actor",
            "delayed_for", "delayed_critic", "delayed_if", "store"}
TrainPcs == GradPcs \ {"grad_for"}
EvalPcs == {"eval_reset", "eval_for", "rollout"}

\* C1: once a rollout has returned continue_training = False, the generation
\* it belongs to is never told (the tells stay one behind the asks), nothing
\* changes the search distribution, no further rollout, progress update or
\* ask happens, and control leaves both loops for the end of learn.
C1_AbortDiscardsGeneration ==
    /\ [](continue_training = FALSE =>
            /\ gen.tells = 0
            /\ es.tells = stats.asks - 1
            /\ pc \in {"if_abort", "end", "done"})
    /\ [][continue_training = FALSE =>
            /\ es' = es
            /\ stats'.rollouts = stats.rollouts
            /\ stats'.asks = stats.asks
            /\ current_progress' = current_progress
            /\ continue_training' = FALSE
            /\ pc' = IF pc = "if_abort" THEN "end" ELSE "done"]_vars

\* C1 witness: a later generation was aborted after one of its rollouts had
\* already been counted, and learn has returned
C1_Witness ==
    /\ pc = "done"
    /\ continue_training = FALSE
    /\ es.tells >= 1
    /\ Len(fitnesses) >= 1

\* C2: whenever tell is about to be called, fitnesses and es_params both have
\* pop_size entries and fitnesses[j] is the reward of the rollout that ran
\* with es_params[j] loaded into the actor.
C2_TellAligned ==
    pc = "tell" =>
        /\ Len(fitnesses) = pop_size
        /\ Len(es_params) = pop_size
        /\ Len(evals) = pop_size
        /\ \A j \in 1..pop_size :
              /\ evals[j].w = es_params[j]
              /\ evals[j].reward = fitnesses[j]

\* C2 witness: a tell of a generation that had a gradient phase, with two
\* individuals of different fitness
C2_Witness ==
    /\ pc = "tell"
    /\ pop_size >= 2
    /\ gen.grad_phase
    /\ es_params[1].grad > 0
    /\ fitnesses[1] # fitnesses[2]

\* C3: with n_grad = 0 no training call is made, no training iteration runs,
\* the replay buffer is never sampled, nothing is raised, and a generation
\* that was told consisted of pop_size rollouts only.
C3_NoGradientWithoutNGrad ==
    n_grad = 0 =>
        /\ pc \notin TrainPcs
        /\ pc # "raised"
        /\ gen.trainer_calls = 0
        /\ gen.grad_blocks = 0
        /\ stats.critic_iters = 0
        /\ stats.actor_iters = 0
        /\ stats.samples = 0
        /\ (gen.tells = 1 => gen.rollouts = pop_size)

\* C3 witness: with n_grad = 0, a second generation passed the (empty)
\* gradient phase and was told
C3_Witness ==
    /\ n_grad = 0
    /\ gen.grad_phase
    /\ gen.tells = 1
    /\ es.tells >= 2

\* C6 as stated: in the first generation of every learn call the gradient
\* phase is skipped entirely (no load, no new optimizer, no training call,
\* no write-back).
C6_FirstGenerationSkipsGradient ==
    (stats.asks = 1 /\ es.tells = 0) =>
        /\ ~gen.grad_phase
        /\ gen.grad_blocks = 0
        /\ gen.trainer_calls = 0
        /\ pc \notin GradPcs

\* C6 amended: in the first generation the gradient phase is entered exactly
\* when num_timesteps > 0 after _setup_learn (never with
\* reset_num_timesteps = True); if it is skipped nothing is loaded, created
\* or trained, and if it is entered actor_steps is 0 throughout it, no
\* training iteration runs, the replay buffer is not sampled and every
\* population slot keeps the vector ask returned.
C6_FirstGenerationGate ==
    (stats.asks = 1 /\ pc # "if_grad") =>
        /\ gen.grad_phase <=> (stats.start_timesteps > 0)
        /\ reset_num_timesteps => ~gen.grad_phase
        /\ ~gen.grad_phase =>
              /\ gen.grad_blocks = 0
              /\ gen.trainer_calls = 0
              /\ optimizer.serial = 0
              /\ pc \notin GradPcs
        /\ pc \in GradPcs => actor_steps = 0
        /\ stats.critic_iters = 0
        /\ stats.actor_iters = 0
        /\ stats.samples = 0
        /\ \A j \in 1..Len(es_params) : es_params[j] = Vec(1, j)

\* C6 witness: a resumed learn call is in the gradient phase of its first
\* generation and has made both training calls for an individual
C6_Witness ==
    /\ stats.asks = 1
    /\ ~reset_num_timesteps
    /\ gen.grad_phase
    /\ pc = "store"
    /\ Len(calls) = 2

\* C7: when an individual's training starts, actor and target actor hold
\* exactly es_params[i] and the optimizer is new; during its training the
\* actor is es_params[i] moved by this individual's own gradient steps only;
\* when a rollout starts the actor holds the vector of the individual being
\* evaluated, and every write-back of the generation has already happened.
C7_WeightsBelongToIndividual ==
    /\ pc = "style" =>
          /\ actor.w = es_params[i + 1]
          /\ actor_target = [w |-> es_params[i + 1], polyak |-> 0]
          /\ optimizer.steps = 0
    /\ pc \in TrainPcs =>
          /\ i < pop_size
          /\ actor_target.w = es_params[i + 1]
          /\ actor.w = [es_params[i + 1] EXCEPT !.grad = @ + optimizer.steps]
    /\ pc = "rollout" =>
          /\ k < pop_size
          /\ actor.w = es_params[k + 1]
          /\ gen.grad_phase => (i = n_grad /\ gen.grad_blocks = n_grad)

\* C7 witness: the second individual's training is about to start after the
\* first one was trained and written back
C7_Witness ==
    /\ pc = "style"
    /\ i >= 1
    /\ es_params[i].grad > 0

OriginalStyles == {"original", "original_td3"}

\* C8: during the gradient phase actor_steps is the sum of the steps returned
\* by the pop_size rollouts of the preceding completed evaluation phase (0 if
\* this call has had none); during an evaluation phase it is the sum of the
\* steps of that phase so far, starting from 0; in the styles 'original' and
\* 'original_td3' each individual's train_critic is called with
\* actor_steps // n_grad iterations and its train_actor with actor_steps.
C8_OriginalBudget ==
    /\ pc \in GradPcs =>
          /\ actor_steps = last_eval.steps
          /\ last_eval.rollouts \in {0, pop_size}
          /\ stats.asks >= 2 => last_eval.rollouts = pop_size
    /\ pc \in {"eval_for", "rollout"} => actor_steps = SumSteps(evals)
    /\ (update_style \in OriginalStyles /\ pc \in {"original_actor", "original_td3_actor"}) =>
          /\ Len(calls) = 1
          /\ calls[1].fn = "train_critic"
          /\ calls[1].n = last_eval.steps \div n_grad
    /\ (update_style \in OriginalStyles /\ pc = "store") =>
          /\ Len(calls) = 2
          /\ calls[1].fn = "train_critic"
          /\ calls[1].n = last_eval.steps \div n_grad
          /\ calls[2].fn = "train_actor"
          /\ calls[2].n = last_eval.steps
          /\ optimizer.steps = last_eval.steps

\* C8 witness: in a third generation an individual of style 'original' has
\* been trained with a positive budget
C8_Witness ==
    /\ pc = "store"
    /\ update_style = "original"
    /\ stats.asks >= 3
    /\ actor_steps >= 1

DelayedStyles == Styles \ OriginalStyles

\* positions of the train_critic calls made so far for the current individual
CriticCalls == {p \in 1..Len(calls) : calls[p].fn = "train_critic"}

\* the iteration (counted from 0) a train_critic call at position p belongs to
IterationOf(p) == Cardinality({q \in CriticCalls : q < p})

\* the iterations the current individual is due, from the preceding evaluation
ExpectedIterations ==
    IF update_style = "td3_like" THEN last_eval.steps ELSE 2 * (last_eval.steps \div n_grad)

\* C9: in the styles with policy delay an individual runs actor_steps
\* iterations ('td3_like') or 2 * (actor_steps // n_grad) (any other style);
\* every iteration samples one new batch and makes one one-step train_critic
\* call on it; iteration it is followed by a train_actor call, on the same
\* batch and after the critic call, exactly when it % policy_delay == 0.
C9_DelayedSchedule ==
    (update_style \in DelayedStyles /\ pc \in {"delayed_for", "delayed_critic", "delayed_if", "store"}) =>
        /\ n_training_steps = ExpectedIterations
        /\ it <= n_training_steps
        /\ pc = "store" => it = n_training_steps
        /\ Cardinality(CriticCalls) = IF pc = "delayed_if" THEN it + 1 ELSE it
        /\ \A p \in 1..Len(calls) :
              /\ calls[p].n = Omitted
              /\ calls[p].batch # Omitted
              /\ calls[p].fn = "train_critic" =>
                    /\ \A q \in CriticCalls : q # p => calls[q].batch # calls[p].batch
                    /\ (IterationOf(p) % policy_delay = 0 /\ (p < Len(calls) \/ pc # "delayed_if"))
                          => (p < Len(calls) /\ calls[p + 1].fn = "train_actor")
              /\ calls[p].fn = "train_actor" =>
                    /\ p > 1
                    /\ calls[p - 1].fn = "train_critic"
                    /\ calls[p - 1].batch = calls[p].batch
                    /\ IterationOf(p - 1) % policy_delay = 0
        /\ pc = "delayed_critic" => \A q \in CriticCalls : calls[q].batch # replay_data

\* C9 witness: a 'td3_like' individual has finished two iterations with
\* policy_delay = 2 (critic and actor, then critic only)
C9_Witness ==
    /\ pc = "store"
    /\ update_style = "td3_like"
    /\ policy_delay = 2
    /\ it = 2
    /\ Len(calls) = 3

\* C10: 'original' calls train_critic with tau (each critic iteration moves
\* the target critic) and then train_actor with tau_critic = 0 (the target
\* critic stays put); 'original_td3' calls train_critic with tau = 0 (the
\* target critic stays put) and then train_actor with tau_actor = tau_critic
\* = tau (the targets move then); the critic call precedes the actor call.
C10_TargetSync ==
    /\ [](Tau > 0)
    /\ []((update_style = "original" /\ pc = "store") =>
            /\ Len(calls) = 2
            /\ calls[1].fn = "train_critic" /\ calls[1].tau = Tau
            /\ calls[2].fn = "train_actor" /\ calls[2].tau_critic = 0)
    /\ []((update_style = "original_td3" /\ pc = "store") =>
            /\ Len(calls) = 2
            /\ calls[1].fn = "train_critic" /\ calls[1].tau = 0
            /\ calls[2].fn = "train_actor"
            /\ calls[2].tau_actor = Tau /\ calls[2].tau_critic = Tau)
    /\ [][(update_style = "original" /\ pc = "style") =>
            critic_target'.polyak = critic_target.polyak + (actor_steps \div n_grad)]_vars
    /\ [][(update_style = "original" /\ pc = "original_actor") =>
            critic_target' = critic_target]_vars
    /\ [][(update_style = "original_td3" /\ pc = "style") =>
            critic_target' = critic_target /\ actor_target' = actor_target]_vars
    /\ [][(update_style = "original_td3" /\ pc = "original_td3_actor") =>
            /\ critic_target'.polyak = critic_target.polyak + actor_steps
            /\ actor_target'.polyak = actor_target.polyak + actor_steps]_vars

\* C10 witness: an 'original_td3' individual has been trained with at least
\* one critic iteration, and the targets moved in train_actor only
C10_Witness ==
    /\ pc = "store"
    /\ update_style = "original_td3"
    /\ calls[1].n >= 1
    /\ actor_target.polyak = actor_steps

\* C5: learn eventually reaches its terminal point (on_training_end called,
\* learn returned), and a generation is never started (no ask) once
\* num_timesteps >= total_timesteps.
C5_LearnTerminates ==
    /\ <>(pc = "done" /\ stats.training_end = 1)
    /\ [][stats'.asks # stats.asks => num_timesteps < total_timesteps]_vars

\* a told generation: the state right after its tell
GenerationTold == pc = "while" /\ gen.tells = 1

\* the parameter vectors and fitnesses told are pop_size aligned pairs
ToldAligned ==
    /\ Len(es_params) = pop_size
    /\ Len(fitnesses) = pop_size
    /\ Len(evals) = pop_size
    /\ \A j \in 1..pop_size : evals[j].w = es_params[j] /\ evals[j].reward = fitnesses[j]

\* ceil(n / d)
CeilDiv(n, d) == (n + d - 1) \div d

\* the training calls one individual got in a generation with gradient phase
\* (n_training_steps is what the generation's individuals were given)
TrainerCallsPerIndividual ==
    IF update_style \in OriginalStyles THEN 2
    ELSE n_training_steps + CeilDiv(n_training_steps, policy_delay)

\* C4 as stated: with pop_size = 10 and n_grad = 5 every completed generation
\* trained 5 individuals (once each), ran 10 rollouts and was told once with
\* 10 aligned pairs.
C4_FiveTrainTenRollOneTell ==
    GenerationTold =>
        /\ gen.grad_blocks = DefaultNGrad
        /\ gen.rollouts = DefaultPopSize
        /\ gen.tells = 1
        /\ ToldAligned

\* C4 amended: every completed generation ran 10 rollouts and was told once
\* with 10 aligned pairs; a generation that started with num_timesteps > 0
\* trained 5 individuals, each with one train_critic and one train_actor
\* call in the original styles and with one train_critic call per iteration
\* plus one train_actor call per policy_delay-th iteration in the others; a
\* generation that started with num_timesteps = 0 made no training call.
C4_GenerationCycle ==
    GenerationTold =>
        /\ gen.rollouts = DefaultPopSize
        /\ gen.tells = 1
        /\ ToldAligned
        /\ gen.grad_phase =>
              /\ gen.grad_blocks = DefaultNGrad
              /\ gen.trainer_calls = DefaultNGrad * TrainerCallsPerIndividual
        /\ ~gen.grad_phase =>
              /\ gen.grad_blocks = 0
              /\ gen.trainer_calls = 0
              /\ stats.start_timesteps = 0
              /\ stats.asks = 1

\* C4 witness: a second generation with a gradient phase on the steps of
\* the first one has been told
C4_Witness ==
    /\ GenerationTold
    /\ pop_size = DefaultPopSize
    /\ n_grad = DefaultNGrad
    /\ elitism
    /\ stats.asks = 2
    /\ gen.grad_phase
    /\ gen.grad_blocks = DefaultNGrad
    /\ last_eval.steps >= DefaultPopSize
    /\ gen.rollouts = DefaultPopSize

\* ------------------------------------------------------------ claim C11
\* the individual a vector stands for: the ask that sampled it and its slot
SameIndividual(v, w) == v.gen = w.gen /\ v.idx = w.idx

\* C11: ask and tell strictly alternate, starting with ask: there is never
\* more than one ask that has not been told, an ask is made only when every
\* earlier ask has been told, and a tell is made only for the one ask that is
\* open.  What tell receives is the population that ask returned (slot by
\* slot the same individual) with one fitness per slot, each the reward of
\* that slot's rollout in this generation.  When learn returns, an ask is
\* left without its tell only if the run was aborted.
C11_AskTellAlternate ==
    /\ [](es.tells <= stats.asks /\ stats.asks <= es.tells + 1)
    /\ [][stats'.asks # stats.asks
            => stats.asks = es.tells /\ stats'.asks = stats.asks + 1 /\ es' = es]_vars
    /\ [][es'.tells # es.tells
            => /\ es'.tells = es.tells + 1
               /\ stats.asks = es.tells + 1 /\ stats' = stats
               /\ Len(es_params) = pop_size /\ Len(gen.asked) = pop_size
               /\ \A j \in 1..pop_size : SameIndividual(es_params[j], gen.asked[j])
               /\ Len(fitnesses) = pop_size /\ Len(evals) = pop_size
               /\ \A j \in 1..pop_size : /\ fitnesses[j] = evals[j].reward
                                          /\ evals[j].w = es_params[j]]_vars
    /\ [](pc = "done" => \/ stats.asks = es.tells
                         \/ ~continue_training /\ stats.asks = es.tells + 1)

\* the second generation, trained by the gradient phase, is about to be told
C11_Witness ==
    /\ pc = "tell"
    /\ stats.asks = 2 /\ es.tells = 1
    /\ gen.grad_phase /\ \E j \in 1..pop_size : es_params[j] # gen.asked[j]

\* ------------------------------------------------------------ claim C12
\* C12: no gradient-training iteration runs while fewer than learning_starts
\* steps have been collected: as long as num_timesteps < learning_starts
\* (num_timesteps never decreases during learn) this learn call has made no
\* critic update and no actor update
C12_NoTrainingBeforeLearningStarts ==
    num_timesteps < learning_starts
        => stats.critic_iters = 0 /\ stats.actor_iters = 0

\* ------------------------------------------------------------ claim C13
\* learn has been left: it returned, or an exception propagated out of it
LearnLeft == pc \in {"done", "raised"}

\* C13: on_training_start is invoked exactly once and before the first ask
\* and the first rollout; on_training_end is invoked at most once, only as
\* the last thing learn does, and it has been invoked exactly once whenever
\* learn has been left, by whichever path
C13_CallbackLifecycle ==
    /\ stats.training_start = (IF pc = "setup" THEN 0 ELSE 1)
    /\ pc = "setup" => stats.asks = 0 /\ stats.rollouts = 0 /\ es.tells = 0
    /\ stats.training_end = 1 => pc = "done"
    /\ LearnLeft => stats.training_end = 1

\* ------------------------------------------------------------ claim C14
\* the gradient phase of the generation is over (or was skipped)
PastGradPcs == EvalPcs \cup {"if_abort", "tell"}

\* the slots the orchestrator has not written since ask hold what ask returned
UnwrittenSlotsAsAsked ==
    \A j \in 1..pop_size : gen.writes[j] = 0 => es_params[j] = gen.asked[j]

\* the evaluation phase and the steps up to tell write no population slot
EvaluationWritesNoSlot ==
    [][(pc \in PastGradPcs) /\ (pc' \in PastGradPcs)
          => gen'.writes = gen.writes /\ es_params' = es_params]_vars

\* C14 (as stated): once the gradient phase is over, slots 1..n_grad have
\* been written exactly once each and the others not at all and unchanged,
\* except on the first generation of the learn call, where no slot has been
\* written; the evaluation phase writes no slot
C14_FirstGenerationWritesNoSlot ==
    pc \in PastGradPcs
        => /\ UnwrittenSlotsAsAsked
           /\ \A j \in 1..pop_size :
                 gen.writes[j] = (IF stats.asks > 1 /\ j <= n_grad THEN 1 ELSE 0)

\* C14 (amended): the write-backs follow the gradient phase, not the number
\* of the generation.  While individual i is being trained slots 1..i have
\* been written once and no other; once the gradient phase is over, slots
\* 1..n_grad have been written exactly once each if the generation started
\* with num_timesteps > 0 (every generation but the first, and the first one
\* of a resumed learn call) and no slot otherwise; every written slot holds
\* the same individual ask returned, and in a first generation without any
\* gradient step; every other slot holds what ask returned.  A slot is
\* written only by the write-back of the individual under training, and the
\* evaluation phase writes no slot.
C14_PopulationFrame ==
    /\ [](pc \in TrainPcs
            => /\ i < n_grad /\ UnwrittenSlotsAsAsked
               /\ \A j \in 1..pop_size : gen.writes[j] = (IF j <= i THEN 1 ELSE 0))
    /\ [](pc \in PastGradPcs
            => /\ UnwrittenSlotsAsAsked
               /\ gen.grad_phase = (stats.asks > 1 \/ (~reset_num_timesteps
                                                        /\ stats.start_timesteps > 0))
               /\ \A j \in 1..pop_size :
                     /\ gen.writes[j] = (IF gen.grad_phase /\ j <= n_grad THEN 1 ELSE 0)
                     /\ SameIndividual(es_params[j], gen.asked[j])
                     /\ stats.asks = 1 => es_params[j].grad = gen.asked[j].grad)
    /\ [][gen'.writes # gen.writes /\ stats'.asks = stats.asks
            => /\ pc = "store" /\ pc' = "grad_for" /\ i' = i + 1
               /\ gen'.writes = [gen.writes EXCEPT ![i + 1] = 1]
               /\ es_params' = [es_params EXCEPT ![i + 1] = ParametersToVector(actor)]]_vars
    /\ [][es_params' # es_params
            => gen'.writes # gen.writes \/ stats'.asks # stats.asks]_vars
    /\ EvaluationWritesNoSlot

\* the first generation of a resumed learn call is about to be told: its
\* first n_grad slots have been written back, the others not
C14_Witness ==
    /\ pc = "tell" /\ stats.asks = 1
    /\ n_grad = 1 /\ pop_size = 2
    /\ gen.writes = <<1, 0>>

\* ------------------------------------------------------------ claim C15
\* the optimizers created since the generation's ask
OptimizersCreated == optimizer.serial - gen.serial0

\* C15: every gradient-receiving individual gets an optimizer of its own.
\* When individual i has been loaded (actor and actor-target hold its
\* vector) and no training call has been made for it yet, the optimizer is
\* the (i+1)-th one created in this generation and has taken no step; while
\* the individual is trained the optimizer stays that one and its steps are
\* exactly the gradient steps this individual has received; the individual's
\* slot is written back only after that.  An optimizer is created only by
\* the step that loads an individual for training, so a gradient phase that
\* has run to its end has created exactly n_grad optimizers, and a
\* generation without a gradient phase none.
C15_FreshOptimizerPerIndividual ==
    /\ [](pc = "style"
            => /\ optimizer.steps = 0 /\ calls = << >>
               /\ actor.w = es_params[i + 1] /\ actor_target.w = es_params[i + 1])
    /\ [](pc \in TrainPcs
            => /\ OptimizersCreated = i + 1 /\ gen.grad_blocks = i + 1
               /\ gen.writes[i + 1] = 0
               /\ optimizer.steps = actor.w.grad - es_params[i + 1].grad)
    /\ [](pc \in PastGradPcs
            => OptimizersCreated = (IF gen.grad_phase THEN n_grad ELSE 0))
    /\ [][optimizer'.serial # optimizer.serial
            => /\ pc = "grad_for" /\ pc' = "style"
               /\ optimizer' = [serial |-> optimizer.serial + 1, steps |-> 0]
               /\ actor' = LoadFromVector(es_params[i + 1])]_vars

\* the second individual has just been loaded after the first one took
\* gradient steps with its own optimizer
C15_Witness ==
    /\ pc = "style" /\ i = 1
    /\ es_params[1].grad > gen.asked[1].grad
    /\ OptimizersCreated = 2 /\ optimizer.steps = 0

\* ------------------------------------------------------------ claim C16
\* C16: the budget is looked at only where a generation starts.  An ask is
\* made only with num_timesteps < total_timesteps; the loop is left only
\* there, with the budget used up, or by the break of an abort; inside the
\* evaluation loop a further individual is evaluated whenever one is left,
\* whatever num_timesteps is, so a generation that was not aborted has made
\* pop_size rollouts when its evaluation is over and when it is told.  When
\* learn returns without abort, the rollouts of the run are pop_size times
\* the tells, every ask has been told, and num_timesteps is at least (and
\* possibly more than) total_timesteps.
C16_BudgetCheckedAtBoundaries ==
    /\ [](pc = "tell" \/ (pc = "if_abort" /\ continue_training)
            => gen.rollouts = pop_size /\ Len(fitnesses) = pop_size)
    /\ [](pc = "done" /\ continue_training
            => /\ stats.rollouts = pop_size * es.tells
               /\ stats.asks = es.tells
               /\ num_timesteps >= total_timesteps)
    /\ [][stats'.asks # stats.asks => num_timesteps < total_timesteps]_vars
    /\ [][(pc # "end") /\ (pc' = "end")
            => \/ pc = "while" /\ num_timesteps >= total_timesteps
               \/ pc = "if_abort" /\ ~continue_training]_vars
    /\ [][(pc = "eval_for") /\ (k < pop_size) => pc' = "rollout"]_vars

\* learn has returned without abort after at least one generation, with
\* more steps collected than the budget asked for
C16_Witness ==
    /\ pc = "done" /\ continue_training
    /\ es.tells >= 1
    /\ num_timesteps > total_timesteps
    /\ stats.rollouts = pop_size * es.tells

\* ------------------------------------------------------------ claim C17
\* the gradient work of this learn call: critic updates, actor updates and
\* batches sampled for training
TrainingWork == <<stats.critic_iters, stats.actor_iters, stats.samples>>

\* C17: as long as this learn call has completed no rollout it has made no
\* critic update, no actor update and has sampled no batch; a step that
\* makes an update or samples a batch is taken only with actor_steps > 0 and
\* after a whole evaluation phase of this call; and while an individual is
\* trained with actor_steps = 0 (a learn call resumed with num_timesteps >
\* 0), whatever the update style, every trainer call made for it has an
\* iteration count of zero, the loop of the delayed styles has no iteration
\* and the individual's optimizer has taken no step.
C17_NoTrainingBeforeData ==
    /\ [](stats.rollouts = 0 => TrainingWork = <<0, 0, 0>>)
    /\ [](pc \in TrainPcs /\ actor_steps = 0
            => /\ stats.rollouts = 0
               /\ optimizer.steps = 0 /\ replay_data = 0
               /\ \A p \in 1..Len(calls) : Iters(calls[p].n) = 0
               /\ pc \in {"delayed_for", "delayed_critic", "delayed_if"}
                     => n_training_steps = 0 /\ it = 0 /\ pc = "delayed_for")
    /\ [][TrainingWork' # TrainingWork
            => /\ actor_steps > 0
               /\ stats.rollouts >= pop_size
               /\ replay_size >= actor_steps]_vars

\* a resumed learn call has made both trainer calls of the 'original' style
\* for an individual of its first generation, with a buffer that holds
\* earlier transitions, and no update has happened
C17_Witness ==
    /\ pc = "store" /\ actor_steps = 0
    /\ update_style = "original" /\ Len(calls) = 2
    /\ replay_size > 0 /\ stats.rollouts = 0
    /\ TrainingWork = <<0, 0, 0>>

\* ------------------------------------------------------------ claim C18
\* C18: whatever n_grad and pop_size the constructor was given, the slot the
\* gradient loop is about to load (es_params[i] with i < n_grad) and the slot
\* of the individual under training, which the write-back addresses, lie
\* within the population ask returned, so the lookup never raises
C18_GradientIndexInRange ==
    /\ pc = "grad_for" /\ i < n_grad => i < pop_size /\ i < Len(es_params)
    /\ pc \in TrainPcs => i < pop_size /\ i < Len(es_params)
    /\ pc # "raised"

\* ------------------------------------------------------------ claim C19
\* the individual the evaluation loop loaded last: the one whose rollout
\* aborted, or the last slot of the population
LastLoadedForEvaluation ==
    IF continue_training THEN es_params[pop_size] ELSE es_params[k + 1]

\* C19: when learn has returned after at least one generation, the live
\* actor holds the vector of the individual that was loaded last for
\* evaluation: the last slot of the final generation's population on a
\* normal exit, the slot whose rollout aborted on abort.  The actor is
\* written only by the loads and training calls of the gradient phase and
\* by the load before a rollout; the step that tells the optimizer (the only
\* one that moves the search distribution) leaves actor and actor-target
\* alone, and so does everything after the last load for evaluation.
C19_ActorHoldsLastEvaluated ==
    /\ [](pc = "done" /\ stats.asks >= 1
            => actor.w = LastLoadedForEvaluation)
    /\ [][es' # es
            => pc = "tell" /\ actor' = actor /\ actor_target' = actor_target]_vars
    /\ [][actor' # actor
            => \/ pc = "grad_for" \/ pc \in TrainPcs
               \/ pc = "eval_for" /\ actor' = LoadFromVector(es_params[k + 1])]_vars

\* learn has returned normally and the actor holds the last slot of the
\* final population, which is neither the distribution's mean nor the best
\* individual of that generation
C19_Witness ==
    /\ pc = "done" /\ continue_training /\ es.tells >= 1
    /\ actor.w = es_params[pop_size]
    /\ actor.w # es.mu
    /\ actor.w # es_params[Best(fitnesses)]

====
